---- MODULE Spec2Model ----
(***************************************************************************)
(* A model of tikki.utils.get_args (src/tikki/utils.py), the request-field *)
(* extractor, together with its helpers parse_value and get_anydict_value. *)
(*                                                                         *)
(* A Python value is a record [t |-> <type name>, v |-> <its str()>].      *)
(* A descriptor group is a record [given, items]: given = FALSE is the     *)
(* argument None, items is the dict as the sequence of its (key, x) pairs  *)
(* in iteration order.  A source mapping is a record [kind, items] where   *)
(* kind is its runtime type and items maps the keys it holds to values     *)
(* (for a MultiDict: to the first value stored under the key).             *)
(* The outcome of a call is a record [kind, msg, args, ret]: kind is       *)
(* "return" or the class of the exception that left get_args.              *)
(***************************************************************************)
EXTENDS Integers, Sequences, FiniteSets, TLC

VARIABLES received, required, defaultable, optional, constant,
          typeErrorCaught, result

vars == <<received, required, defaultable, optional, constant,
          typeErrorCaught, result>>

(* ------------------------------ bounds --------------------------------- *)

\* The number of fields declared over the four descriptor groups together.
MaxFields == 3

\* Field names (those of the repository's test, src/tests/utils_tests.py).
Keys == {"a", "b"}

(* --------------------------- Python values ----------------------------- *)

NoneVal == [t |-> "NoneType", v |-> "None"]

IntVal(s) == [t |-> "int", v |-> s]

StrVal(s) == [t |-> "str", v |-> s]

BoolVal(s) == [t |-> "bool", v |-> s]

DatetimeVal(s) == [t |-> "datetime", v |-> s]

\* Declared types of the required and optional groups.
Types == {"int", "str", "datetime"}

\* Values a plain dict source holds (a decoded JSON body).
DictVals == {IntVal("1"), BoolVal("True"), StrVal("c"),
             StrVal("2020-01-02T03:04:05")}

\* Values a MultiDict source holds (query or form fields: text).
MultiDictVals == {StrVal("c"), StrVal("7")}

\* Default values of the defaultable group.
DefaultVals == {NoneVal, IntVal("3"), StrVal("d")}

\* Fixed values of the constant group.
ConstantVals == {NoneVal, IntVal("2")}

\* type(value)
TypeOf(value) == value.t

\* isinstance(value, default_type): bool is a subclass of int.
IsInstance(value, default_type) ==
    \/ value.t = default_type
    \/ value.t = "bool" /\ default_type = "int"

\* The empty dict.
EmptyDict == [k \in {} |-> NoneVal]

\* d[key] = val on a dict d: the key is added or its value replaced.
DictSet(d, key, val) ==
    [k \in DOMAIN d \cup {key} |-> IF k = key THEN val ELSE d[k]]

\* The keys of a descriptor group's items.
KeysOf(items) == {items[i][1] : i \in 1..Len(items)}

\* A lookup's outcome: a value, or the exception that was raised.
Value(val) == [exc |-> "", msg |-> "", val |-> val]

Raise(exc, msg) == [exc |-> exc, msg |-> msg, val |-> NoneVal]

(* ------------------------------ helpers -------------------------------- *)

\* The strings in a date/time format.
IsDateText(value) == value.t = "str" /\ value.v = "2020-01-02T03:04:05"

\* dateutil.parser.parse(value, ignoretz=True): a date/time for a string in
\* a date/time format, ValueError for any other string.
DateutilParse(value) ==
    IF IsDateText(value)
    THEN Value(DatetimeVal("2020-01-02 03:04:05"))
    ELSE Raise("ValueError", "Unknown string format")

\* A mutant of parse_value: the value's type is compared with the declared
\* type, type(value) is default_type.
parse_value_exact(value, default_type) ==
    IF default_type = "datetime" /\ IsInstance(value, "str")
    THEN DateutilParse(value)
    ELSE Value(IF TypeOf(value) = default_type THEN value ELSE NoneVal)

\* parse_value
parse_value(value, default_type) ==
    IF default_type = "datetime" /\ IsInstance(value, "str")
    THEN DateutilParse(value)
    ELSE Value(IF IsInstance(value, default_type) THEN value ELSE NoneVal)

\* default_type(rv), the conversion MultiDict.get applies to a stored text:
\* int(rv) and str(rv) convert or raise ValueError, datetime(rv) and
\* NoneType(rv) raise TypeError.
Convert(rv, default_type) ==
    CASE default_type = "str" -> Value(StrVal(rv.v))
      [] default_type = "int" ->
            IF rv.v = "7" THEN Value(IntVal("7"))
            ELSE Raise("ValueError", "invalid literal for int()")
      [] OTHER -> Raise("TypeError", "")

\* source_dict.get(key, default_value, default_type) on a MultiDict: the
\* default for a missing key and for a conversion that raises ValueError; a
\* TypeError is caught as well or leaves the call, by the library's version.
MultiDictGet(source_dict, key, default_value, default_type) ==
    IF key \notin DOMAIN source_dict.items
    THEN Value(default_value)
    ELSE LET rv == Convert(source_dict.items[key], default_type)
         IN  CASE rv.exc = "" -> rv
               [] rv.exc = "ValueError" -> Value(default_value)
               [] OTHER ->
                    IF typeErrorCaught THEN Value(default_value) ELSE rv

\* source_dict.get(key, default_value) on a dict.
DictGet(source_dict, key, default_value) ==
    IF key \in DOMAIN source_dict.items
    THEN source_dict.items[key]
    ELSE default_value

\* A mutant of get_anydict_value: a source of an unsupported type reads as
\* a mapping without the key.
get_anydict_value_no_raise(source_dict, key, default_value, default_type) ==
    CASE source_dict.kind = "MultiDict" ->
            LET value == MultiDictGet(source_dict, key, default_value,
                                      default_type)
            IN  IF value.exc # "" THEN value
                ELSE parse_value(value.val, default_type)
      [] source_dict.kind = "dict" ->
            parse_value(DictGet(source_dict, key, default_value), default_type)
      [] OTHER -> parse_value(default_value, default_type)

\* get_anydict_value
get_anydict_value(source_dict, key, default_value, default_type) ==
    CASE source_dict.kind = "MultiDict" ->
            LET value == MultiDictGet(source_dict, key, default_value,
                                      default_type)
            IN  IF value.exc # "" THEN value
                ELSE parse_value(value.val, default_type)
      [] source_dict.kind = "dict" ->
            parse_value(DictGet(source_dict, key, default_value), default_type)
      [] OTHER ->
            Raise("AppException", "Unsupported source_dict type")

(* ------------------------------ get_args ------------------------------- *)

\* A mutant of NoGroups: the groups are tested for being empty.
NoGroupsFalsy(req, dflt, opt, const) ==
    /\ req.items = <<>>
    /\ dflt.items = <<>>
    /\ opt.items = <<>>
    /\ const.items = <<>>

\* required is None and defaultable is None and optional is None and
\* constant is None
NoGroups(req, dflt, opt, const) ==
    /\ ~req.given
    /\ ~dflt.given
    /\ ~opt.given
    /\ ~const.given

\* The locals of get_args as its loops start: nothing missing, an empty
\* ret_dict, no exception.
Start == [exc |-> "", msg |-> "", missing |-> <<>>, ret_dict |-> EmptyDict]

\* A lookup raised: the exception leaves the loop with the locals as they are.
Raised(st, val) == [st EXCEPT !.exc = val.exc, !.msg = val.msg]

\* A mutant of RequiredStep: a key counts as missing when the source does
\* not hold it.
RequiredStepKeyOnly(st, key, default_type) ==
    LET val == get_anydict_value(received, key, NoneVal, default_type)
    IN  IF val.exc # "" THEN Raised(st, val)
        ELSE [st EXCEPT
                !.missing = IF key \notin DOMAIN received.items
                            THEN Append(@, key) ELSE @,
                !.ret_dict = DictSet(@, key, val.val)]

\* One turn of the loop over required.
RequiredStep(st, key, default_type) ==
    LET val == get_anydict_value(received, key, NoneVal, default_type)
    IN  IF val.exc # "" THEN Raised(st, val)
        ELSE [st EXCEPT
                !.missing = IF val.val = NoneVal THEN Append(@, key) ELSE @,
                !.ret_dict = DictSet(@, key, val.val)]

\* A mutant of DefaultableStep: a key ret_dict already holds is kept.
DefaultableStepKeep(st, key, default_value) ==
    LET val == get_anydict_value(received, key, default_value,
                                 TypeOf(default_value))
    IN  IF val.exc # "" THEN Raised(st, val)
        ELSE IF key \in DOMAIN st.ret_dict THEN st
        ELSE [st EXCEPT !.ret_dict = DictSet(@, key, val.val)]

\* One turn of the loop over defaultable.
DefaultableStep(st, key, default_value) ==
    LET val == get_anydict_value(received, key, default_value,
                                 TypeOf(default_value))
    IN  IF val.exc # "" THEN Raised(st, val)
        ELSE [st EXCEPT !.ret_dict = DictSet(@, key, val.val)]

\* A mutant of OptionalStep: the value is stored whether None or not.
OptionalStepAlways(st, key, default_type) ==
    LET val == get_anydict_value(received, key, NoneVal, default_type)
    IN  IF val.exc # "" THEN Raised(st, val)
        ELSE [st EXCEPT !.ret_dict = DictSet(@, key, val.val)]

\* One turn of the loop over optional.
OptionalStep(st, key, default_type) ==
    LET val == get_anydict_value(received, key, NoneVal, default_type)
    IN  IF val.exc # "" THEN Raised(st, val)
        ELSE IF val.val # NoneVal
             THEN [st EXCEPT !.ret_dict = DictSet(@, key, val.val)]
             ELSE st

\* A mutant of ConstantStep: a key ret_dict already holds is kept.
ConstantStepKeep(st, key, value) ==
    IF key \in DOMAIN st.ret_dict THEN st
    ELSE [st EXCEPT !.ret_dict = DictSet(@, key, value)]

\* ret_dict.update(constant), one key of it.
ConstantStep(st, key, value) ==
    [st EXCEPT !.ret_dict = DictSet(@, key, value)]

\* One turn of the loop of group g ("required", "defaultable", "optional",
\* "constant") for the pair item of its dict.
Step(g, st, item) ==
    CASE g = "required" -> RequiredStep(st, item[1], item[2])
      [] g = "defaultable" -> DefaultableStep(st, item[1], item[2])
      [] g = "optional" -> OptionalStep(st, item[1], item[2])
      [] OTHER -> ConstantStep(st, item[1], item[2])

\* The loop of group g over items, from its i-th pair on; an exception ends
\* it and every loop after it.
RECURSIVE Loop(_, _, _, _)
Loop(g, st, items, i) ==
    IF st.exc # "" \/ i > Len(items) THEN st
    ELSE Loop(g, Step(g, st, items[i]), items, i + 1)

\* get_args(received, required, defaultable, optional, constant)
get_args(req, dflt, opt, const) ==
    IF NoGroups(req, dflt, opt, const)
    THEN [kind |-> "AppException", msg |-> "One of the following is required",
          args |-> <<>>, ret |-> EmptyDict]
    ELSE LET r == Loop("required", Start, req.items, 1)
             d == Loop("defaultable", r, dflt.items, 1)
             o == Loop("optional", d, opt.items, 1)
             c == Loop("constant", o, const.items, 1)
         IN  IF c.exc # ""
             THEN [kind |-> c.exc, msg |-> c.msg, args |-> <<>>,
                   ret |-> EmptyDict]
             ELSE IF Len(c.missing) > 0
             THEN [kind |-> "AppException",
                   msg |-> "Missing following arguments:",
                   args |-> c.missing, ret |-> EmptyDict]
             ELSE [kind |-> "return", msg |-> "", args |-> <<>>,
                   ret |-> c.ret_dict]

(* ------------------------------ inputs --------------------------------- *)

\* The dicts of n pairs with keys in Keys and the other components in X.
DictsOf(X, n) ==
    {s \in [1..n -> Keys \X X] :
        \A i, j \in 1..n : s[i][1] = s[j][1] => i = j}

\* A descriptor group of n fields: an omitted one counts as empty.
GroupsOf(X, n) ==
    IF n = 0
    THEN {[given |-> g, items |-> <<>>] : g \in BOOLEAN}
    ELSE {[given |-> TRUE, items |-> s] : s \in DictsOf(X, n)}

\* How many fields each of the four groups declares.
Sizes ==
    {s \in [1..4 -> 0..Cardinality(Keys)] :
        s[1] + s[2] + s[3] + s[4] <= MaxFields}

\* The mappings from some of the keys to values in X.
ItemsOf(X) == UNION {[D -> X] : D \in SUBSET Keys}

Sources ==
    {[kind |-> "dict", items |-> m] : m \in ItemsOf(DictVals)}
    \cup {[kind |-> "MultiDict", items |-> m] : m \in ItemsOf(MultiDictVals)}
    \cup {[kind |-> "NoneType", items |-> EmptyDict]}

Pending == [kind |-> "pending", msg |-> "", args |-> <<>>, ret |-> EmptyDict]

(* --------------------------- specification ----------------------------- *)

Init ==
    /\ received \in Sources
    /\ \E s \in Sizes :
          /\ required \in GroupsOf(Types, s[1])
          /\ defaultable \in GroupsOf(DefaultVals, s[2])
          /\ optional \in GroupsOf(Types, s[3])
          /\ constant \in GroupsOf(ConstantVals, s[4])
    /\ typeErrorCaught \in BOOLEAN
    /\ result = Pending

\* A call of get_args: it reads its arguments and leaves an outcome.
Call ==
    /\ result.kind = "pending"
    /\ result' = get_args(required, defaultable, optional, constant)
    /\ UNCHANGED <<received, required, defaultable, optional, constant,
                   typeErrorCaught>>

Next == Call

Spec == Init /\ [][Next]_vars

(* ------------------------- vocabulary of the claims -------------------- *)

Done == result.kind # "pending"

Returned == result.kind = "return"

Supported == received.kind \in {"dict", "MultiDict"}

NoneGiven ==
    ~required.given /\ ~defaultable.given /\ ~optional.given /\ ~constant.given

AllEmpty ==
    /\ required.items = <<>>
    /\ defaultable.items = <<>>
    /\ optional.items = <<>>
    /\ constant.items = <<>>

GroupsErr ==
    /\ result.kind = "AppException"
    /\ result.msg = "One of the following is required"

UnsupportedErr ==
    /\ result.kind = "AppException"
    /\ result.msg = "Unsupported source_dict type"

MissingErr ==
    /\ result.kind = "AppException"
    /\ result.msg = "Missing following arguments:"

ReqKeys == KeysOf(required.items)

DefKeys == KeysOf(defaultable.items)

OptKeys == KeysOf(optional.items)

ConstKeys == KeysOf(constant.items)

\* What group items (a dict's pairs) map key k to.
At(items, k) == items[CHOOSE i \in 1..Len(items) : items[i][1] = k][2]

Holds(k) == k \in DOMAIN received.items

\* The source holds, under k, a value that satisfies declared type t: in a
\* dict an instance of t, or date/time text for a date/time; in a MultiDict
\* a text that converts to t.
Validates(k, t) ==
    /\ Holds(k)
    /\ LET raw == received.items[k]
       IN  IF received.kind = "dict"
           THEN \/ raw.t = t
                \/ raw.t = "bool" /\ t = "int"
                \/ t = "datetime" /\ IsDateText(raw)
           ELSE \/ t = "str"
                \/ t = "int" /\ raw.v = "7"

\* The names of the required fields the source does not satisfy, in the
\* order of required.
AbsentRequired ==
    SelectSeq([i \in 1..Len(required.items) |-> required.items[i][1]],
              LAMBDA k : ~Validates(k, At(required.items, k)))

(* -------------------------------- C1 ----------------------------------- *)

\* C1 (as stated): whenever all four descriptor groups are empty or omitted,
\* the call fails with the AppException that asks for a group, whatever the
\* source.
C1_EmptyOrOmittedFails == (Done /\ AllEmpty) => GroupsErr

\* C1 (amended): the call fails with that AppException exactly when all four
\* groups are omitted (None), whatever the source; when all four are empty
\* and one at least is supplied as an empty mapping, it returns an empty
\* output mapping.
C1_OmittedFails ==
    Done => /\ GroupsErr <=> NoneGiven
            /\ (AllEmpty /\ ~NoneGiven) =>
                  (Returned /\ result.ret = EmptyDict)

C1_Witness ==
    /\ Done
    /\ NoneGiven
    /\ GroupsErr
    /\ received.kind = "dict"
    /\ DOMAIN received.items = Keys

(* -------------------------------- C2 ----------------------------------- *)

\* C2 (as stated, for a dict source): if a required field is absent from
\* the source (key missing or value of the wrong type), the call fails with
\* the error whose message lists every such field once, in the order of
\* required, and no other name, whatever the other groups hold for the key.
C2_MissingAlwaysListed ==
    (Done /\ received.kind = "dict" /\ AbsentRequired # <<>>) =>
        (MissingErr /\ result.args = AbsentRequired)

\* C2 (amended): if a required field is absent from the source, the call
\* returns no output mapping, whatever the other groups hold for the key; it
\* fails with the missing-arguments error, whose message lists every such
\* field once, in the order of required, and no other name, unless a lookup
\* raised first: a text that is no date/time under a declared date/time in a
\* dict source, or a TypeError the MultiDict conversion lets through.  The
\* missing-arguments error is raised in no other case.
C2_MissingListedUnlessRaised ==
    Done =>
        /\ (Supported /\ AbsentRequired # <<>>) =>
              \/ MissingErr /\ result.args = AbsentRequired
              \/ result.kind = "ValueError" /\ received.kind = "dict"
              \/ /\ result.kind = "TypeError"
                 /\ received.kind = "MultiDict"
                 /\ ~typeErrorCaught
        /\ MissingErr =>
              (Supported /\ result.args = AbsentRequired
                         /\ AbsentRequired # <<>>)

C2_Witness ==
    /\ MissingErr
    /\ Len(result.args) = 2
    /\ result.args[1] = "b"
    /\ ConstKeys # {}

(* -------------------------------- C3 ----------------------------------- *)

\* C3: on a successful call the output maps every key of required to a
\* non-null value, whatever the other groups declare for the key (stated
\* here for the calls whose constants and defaults are all non-null).
C3_RequiredNeverNull ==
    (/\ Returned
     /\ \A i \in 1..Len(constant.items) : constant.items[i][2] # NoneVal
     /\ \A i \in 1..Len(defaultable.items) : defaultable.items[i][2] # NoneVal)
    => \A k \in ReqKeys : k \in DOMAIN result.ret /\ result.ret[k] # NoneVal

(* -------------------------------- C4 ----------------------------------- *)

\* C4: on a successful call on a dict source, a key of defaultable that
\* neither optional nor constant names is mapped to the source's value when
\* the source holds an instance of the default's type, and to the declared
\* default otherwise.
C4_DefaultableYieldsValue ==
    (Returned /\ received.kind = "dict") =>
        \A k \in DefKeys \ (OptKeys \cup ConstKeys) :
            LET dflt == At(defaultable.items, k)
            IN  /\ k \in DOMAIN result.ret
                /\ result.ret[k] =
                      IF Holds(k) /\ Validates(k, TypeOf(dflt))
                      THEN received.items[k]
                      ELSE dflt

(* -------------------------------- C5 ----------------------------------- *)

\* C5: on a successful call the output maps every key of constant to its
\* constant, whatever the source and the other groups hold for the key.
C5_ConstantsFinal ==
    Returned =>
        \A i \in 1..Len(constant.items) :
            /\ constant.items[i][1] \in DOMAIN result.ret
            /\ result.ret[constant.items[i][1]] = constant.items[i][2]

C5_Witness ==
    /\ Returned
    /\ \E k \in ConstKeys \cap ReqKeys :
          /\ Holds(k)
          /\ received.items[k] # At(constant.items, k)
          /\ result.ret[k] = At(constant.items, k)

(* -------------------------------- C6 ----------------------------------- *)

\* C6: on a successful call the keys of the output are exactly the keys of
\* required, the keys of defaultable, the keys of optional whose source
\* value is present and valid, and the keys of constant.
C6_OutputKeys ==
    Returned =>
        DOMAIN result.ret =
            ReqKeys \cup DefKeys \cup ConstKeys
            \cup {k \in OptKeys : Validates(k, At(optional.items, k))}

C6_Witness ==
    /\ Returned
    /\ \E k \in OptKeys : k \in DOMAIN result.ret
    /\ \E k \in OptKeys : Holds(k) /\ k \notin DOMAIN result.ret

(* -------------------------------- C7 ----------------------------------- *)

\* What the lookup of group items yields for key k, given default dflt and
\* declared type t.
Yield(k, dflt, t) == get_anydict_value(received, k, dflt, t).val

\* The value of key k after merging the groups' results in the order
\* required, defaultable, optional, constant.
Merged(k) ==
    LET r == Yield(k, NoneVal, At(required.items, k))
        d == Yield(k, At(defaultable.items, k),
                   TypeOf(At(defaultable.items, k)))
        o == Yield(k, NoneVal, At(optional.items, k))
    IN  CASE k \in ConstKeys -> At(constant.items, k)
          [] k \in OptKeys /\ o # NoneVal -> o
          [] k \in DefKeys -> d
          [] OTHER -> r

\* C7: on a successful call every key of the output holds the value of the
\* last group, in the order required, defaultable, optional, constant, that
\* yields one for it; an optional field that is absent or invalid yields
\* none.
C7_MergeOrder ==
    Returned => \A k \in DOMAIN result.ret : result.ret[k] = Merged(k)

C7_Witness ==
    /\ Returned
    /\ \E k \in ReqKeys \cap DefKeys :
          result.ret[k] # Yield(k, NoneVal, At(required.items, k))
    /\ \E k \in (ReqKeys \cup DefKeys) \cap OptKeys :
          ~Validates(k, At(optional.items, k))

(* -------------------------------- C9 ----------------------------------- *)

\* C9 (as stated): on a source that is neither a dict nor a MultiDict, every
\* call that passes the descriptor-group check fails with the 'Unsupported
\* source_dict type' AppException, a call whose only non-empty group is
\* constant included (stated here for the calls that declare a field).
C9_UnsupportedAlwaysFails ==
    (Done /\ ~Supported /\ ~AllEmpty) => UnsupportedErr

\* C9 (amended): on such a source, every call that passes the
\* descriptor-group check and declares a field in required, defaultable or
\* optional fails with that AppException, also when a required field would
\* be missing; a call that declares none looks nothing up and returns its
\* constants.
C9_UnsupportedFailsAtLookup ==
    (Done /\ ~Supported /\ ~NoneGiven) =>
        IF ReqKeys \cup DefKeys \cup OptKeys # {}
        THEN UnsupportedErr
        ELSE /\ Returned
             /\ DOMAIN result.ret = ConstKeys
             /\ \A k \in ConstKeys : result.ret[k] = At(constant.items, k)

C9_Witness ==
    /\ UnsupportedErr
    /\ ~Supported
    /\ ReqKeys # {}
    /\ ConstKeys # {}

(* -------------------------------- C10 ---------------------------------- *)

\* A call that declares the one field k of type t, as required, on a dict
\* that holds k.
OneRequired(k, t) ==
    /\ Done
    /\ received.kind = "dict"
    /\ Holds(k)
    /\ required.items = <<(<<k, t>>)>>
    /\ defaultable.items = <<>>
    /\ optional.items = <<>>
    /\ constant.items = <<>>

PassedThrough(k) ==
    Returned /\ result.ret = DictSet(EmptyDict, k, received.items[k])

\* C10 (as stated): coercion never raises; under a declared type other than
\* date/time it passes a value through exactly when the value's type is the
\* declared type, and counts every other value as absent.
C10_NeverRaisesExactType ==
    \A k \in Keys, t \in Types :
        OneRequired(k, t) =>
            /\ result.kind \in {"return", "AppException"}
            /\ t # "datetime" =>
                  (PassedThrough(k) <=> received.items[k].t = t)

\* C10 (amended): under a declared type other than date/time, coercion
\* passes a value through exactly when the value is an instance of the
\* declared type, a subtype's included (a boolean under a declared integer),
\* and counts every other value as absent, without raising; under a declared
\* date/time a text is parsed, and a text that is no date/time raises
\* ValueError.
C10_InstancePassesTextParsed ==
    \A k \in Keys, t \in Types :
        OneRequired(k, t) =>
            LET raw == received.items[k]
            IN  CASE t = "datetime" /\ raw.t = "str" ->
                        IF IsDateText(raw)
                        THEN /\ Returned
                             /\ result.ret[k].t = "datetime"
                        ELSE result.kind = "ValueError"
                  [] raw.t = t \/ (raw.t = "bool" /\ t = "int") ->
                        PassedThrough(k)
                  [] OTHER ->
                        MissingErr /\ result.args = <<k>>

C10_Witness ==
    /\ OneRequired("a", "int")
    /\ received.items["a"] = BoolVal("True")
    /\ PassedThrough("a")

====
